---- MODULE Spec2Model ----
(***************************************************************************)
(* ERP Data Automation Dashboard: the refresh-and-publish pipeline.        *)
(*                                                                         *)
(* main.py: latest_data / data_lock, ERPAutomationSystem                   *)
(* (fetch_and_process_data, schedule_jobs, run_scheduler, start, stop)     *)
(* and the Flask handlers; ERP_Data_Extractor.py: ReportGenerator          *)
(* (generate_excel_reports, generate_csv_exports, cleanup_old_reports).    *)
(*                                                                         *)
(* A dataset (a DataFrame returned by one fetch) is identified by the      *)
(* number of the refresh cycle that fetched it; 0 is Python's None.        *)
(***************************************************************************)
EXTENDS Integers, Sequences, FiniteSets, TLC

\* ------------------------------------------------------------------ bounds
\* Refresh cycles (calls of fetch_and_process_data) started in one run.
MaxCycles == 3
\* Exceptions raised (failed fetches and failed file writes) in one run.
MaxFaults == 1
\* Seconds the wall clock advances in one run.
MaxTick == 1
\* Refresh cycles and health checks in a run that follows the health endpoint.
ServeCycles == 2
MaxChecks == 1
\* Refresh cycles in a run that follows the report files.
WriteCycles == 2
\* Calls of cleanup_old_reports in one run.
MaxSweeps == 2
\* Records of a DataFrame given to the summary computations.
MaxRows == 3

\* --------------------------------------------------------------- constants
None == 0
Free == "free"

\* The four dataset kinds, in the order main.py fetches and publishes them.
Kinds == <<"purchase", "production", "packing", "shipment">>
KindSet == {Kinds[i] : i \in 1..Len(Kinds)}

\* Mutant: the publish assigns last_updated before the datasets.
StampFirst == <<"last_updated">> \o Kinds

\* The keys of latest_data in the order the publish assigns them.
Fields == Kinds \o <<"last_updated">>

\* The threads that call fetch_and_process_data: the main thread (start()),
\* the scheduler thread (run_pending) and the threads refresh_data spawns.
ReqThreads == {"req1"}
Threads == {"main", "sched"} \cup ReqThreads

\* Flask request threads serving get_summary / get_department_data.
Readers == {"r1"}

\* dept_name values of /api/department/<dept_name>.
DeptNames == {"purchase", "shipment", "finance"}

VARIABLES
    latest_data,    \* main.py:38  the published snapshot
    data_lock,      \* main.py:37  owner of the lock, or Free
    pc,             \* per thread: position in its code
    cyc,            \* per thread: number of the cycle it runs (0: none yet)
    loc,            \* per thread: purchase_data .. shipment_data (locals)
    idx,            \* per thread: loop position (fetch / publish / csv loop)
    ts,             \* per thread: the strftime timestamp of the current write
    outcome,        \* history: per cycle, "running", "ok" or the step that raised
    tsdone,         \* per thread: artifacts whose timestamped file this write finished
    files,          \* the report directory: path -> file
    now,            \* wall clock, seconds
    ncycles,        \* cycles started so far
    published,      \* history: cycles in the order their publish completed
    calls,          \* history: per cycle, the fetch operations invoked
    running,        \* main.py:52  ERPAutomationSystem.running
    due,            \* schedule: jobs whose next_run has passed
    todo,           \* run_pending: the runnable jobs still to run
    ran,            \* history: the jobs run_pending has run in this pass
    rpc,            \* per reader: position in the handler
    resp,           \* per reader: the last response returned
    health,         \* health_check: its position, what it has read, its response
    ack,            \* per request thread: the last response of refresh_data
    nfaults,        \* failures (raised exceptions) injected so far
    sweep,          \* cleanup_old_reports: position, cutoff_time, files to visit
    summary,        \* _create_summary / get_summary: the DataFrames given, the results
    lim             \* the run's budgets: cycles, failures, seconds

vars == <<latest_data, data_lock, pc, cyc, loc, idx, ts, outcome, tsdone,
          files, now, ncycles, published, calls, running, due, todo,
          ran, rpc, resp, health, ack, nfaults, sweep,
          summary, lim>>

\* Groups of variables, for the frame conditions.
snapVars == <<latest_data, data_lock, published>>
frameVars == <<cyc, loc, idx, ts, tsdone>>
histVars == <<outcome, calls, ncycles, nfaults>>
schedVars == <<running, due, todo, ran>>
readVars == <<rpc, resp, health, ack>>
envVars == <<now, sweep, summary, lim>>

\* ------------------------------------------------------------ the snapshot
NoStamp == [cyc |-> None, at |-> 0]

\* main.py:38-44
EmptySnapshot ==
    [purchase |-> None, production |-> None, packing |-> None,
     shipment |-> None, last_updated |-> NoStamp]

NoLocals == [k \in KindSet |-> None]

\* datetime.now() at main.py:74, tagged with the publishing cycle.
Stamp(c, t) == [cyc |-> c, at |-> t]

\* Python truthiness of latest_data['last_updated'] (main.py:142, 174, 226).
Truthy(stamp) == stamp # NoStamp

\* ------------------------------------------------------- the report files
\* A path is a sequence of tokens: the directory, then the pieces of the
\* file name.  ReportGenerator.__init__: report_dir and csv_dir.
ReportDir == "reports/"
CsvDir == "reports/csv/"

\* The artifact kinds: the workbook and one CSV export per dataset kind.
Artifacts == {"workbook"} \cup KindSet

SecondsPerDay == 86400

ArtifactDir(a) == IF a = "workbook" THEN ReportDir ELSE CsvDir
Extension(a) == IF a = "workbook" THEN ".xlsx" ELSE ".csv"

\* 'daily_report' (ERP_Data_Extractor.py:371-372) and '<kind>_data' (488-493).
BaseName(a) ==
    IF a = "workbook" THEN <<"daily", "_", "report">> ELSE <<a, "_", "data">>

\* datetime.now().strftime('%Y%m%d_%H%M%S'): the date, an underscore, the
\* time of day, at a resolution of one second.
Strftime(t) == <<ToString(t \div SecondsPerDay), "_", ToString(t % SecondsPerDay)>>

\* f'daily_report_{timestamp}.xlsx', f'{name}_{timestamp}.csv'
TimestampedPath(a, stamp) ==
    <<ArtifactDir(a)>> \o BaseName(a) \o <<"_">> \o stamp \o <<Extension(a)>>

\* 'daily_report.xlsx', f'{name}.csv'
LatestPath(a) == <<ArtifactDir(a)>> \o BaseName(a) \o <<Extension(a)>>

LatestPaths == {LatestPath(a) : a \in Artifacts}

\* A file: the cycle whose data it holds, whether it was written to the
\* end, and its modification time.
File(d, c, m) == [data |-> d, complete |-> c, mtime |-> m]

\* Creating or overwriting the file at path p.
Put(fs, p, f) == [q \in (DOMAIN fs) \cup {p} |-> IF q = p THEN f ELSE fs[q]]

\* Removing the file at path p (Path.unlink).
Unlink(fs, p) == [q \in (DOMAIN fs) \ {p} |-> fs[q]]

\* ------------------------------------------------------------------- Init
\* What the environment does in a run: how many cycles are triggered, how
\* many operations fail and how far the clock advances.
Budget(c, f, k) == [cycles |-> c, faults |-> f, ticks |-> k]

\* refresh_data has not answered.
NoReply == [status |-> 0, body |-> ""]

\* No health check has been made.
NoHealth == [pc |-> "idle", running |-> FALSE, loaded |-> FALSE, n |-> 0,
             last_update |-> NoStamp]

\* What a computation returned: its value, or the exception it raised.
Returned(v) == [raised |-> "", value |-> v]
Raised(e) == [raised |-> e, value |-> <<>>]

\* No summary has been computed.
NoSummary == [dfs |-> <<>>, sheet |-> Returned(<<>>), api |-> Returned(<<>>),
              done |-> {}]

\* No sweep is running or has run.  Of a sweep the model keeps its position,
\* `days`, cutoff_time, the candidates still to visit, and as history the
\* number of sweeps that have returned and, of the call before, `days`, the
\* cutoff and the files that were there when this one was called.
NoCall == [days |-> 0, cutoff |-> 0, store |-> {}]
NoSweep == [pc |-> "idle", days |-> 0, cutoff |-> 0, todo |-> {}, runs |-> 0,
            prev |-> NoCall]

\* The state after the module is loaded and ERPAutomationSystem() built
\* (main.py:37-54, 130).
InitProgram(b) ==
    /\ latest_data = EmptySnapshot
    /\ data_lock = Free
    /\ pc = [t \in Threads |->
                IF t = "main" THEN "start"
                ELSE IF t = "sched" THEN "unstarted" ELSE "idle"]
    /\ cyc = [t \in Threads |-> 0]
    /\ loc = [t \in Threads |-> NoLocals]
    /\ idx = [t \in Threads |-> 0]
    /\ ts = [t \in Threads |-> <<>>]
    /\ tsdone = [t \in Threads |-> {}]
    /\ outcome = <<>>
    /\ ncycles = 0
    /\ published = <<>>
    /\ calls = <<>>
    /\ running = FALSE
    /\ due = {}
    /\ todo = <<>>
    /\ ran = {}
    /\ rpc = [r \in Readers |-> "idle"]
    /\ resp = [r \in Readers |->
                 [req |-> <<"none", "none">>, status |-> 0, error |-> "",
                  obs |-> EmptySnapshot, data |-> None, seen |-> 0]]
    /\ health = NoHealth
    /\ ack = [t \in ReqThreads |-> NoReply]
    /\ nfaults = 0
    /\ sweep = NoSweep
    /\ lim = b

\* The program started on an empty report directory.
InitWith(b) ==
    /\ InitProgram(b)
    /\ summary = NoSummary
    /\ files = <<>>
    /\ now = 0

\* ------------------------------------- fetch_and_process_data (main.py:56-87)
CyclePcs == {"fetch", "acquire", "publish", "xl_stamp", "xl_write", "xl_copy",
             "csv_stamp", "csv_ts", "csv_latest", "except"}

\* Thread t is inside fetch_and_process_data.
InCycle(t) == pc[t] \in CyclePcs

\* Where fetch_and_process_data returns to: start() goes on to schedule_jobs
\* (main.py:113-116), run_pending to the next job, a request thread ends.
ReturnTo(t) ==
    IF t = "main" THEN "schedule_jobs"
    ELSE IF t = "sched" THEN "job_done" ELSE "idle"

\* Mutant: a failed workbook write is swallowed and the cycle goes on to the
\* CSV export.
HandlerSwallowsExcel(step) == IF step = "excel" THEN "csv_stamp" ELSE "except"

\* Mutant: a failed fetch is swallowed and the cycle goes on to publish.
HandlerSwallowsFetch(step) == IF step = "fetch" THEN "acquire" ELSE "except"

\* Mutant: the handler catches only the fetch errors; a report error escapes
\* and kills the thread.
HandlerFetchOnly(step) == IF step = "fetch" THEN "except" ELSE "dead"

\* Mutant: after a failed fetch the cycle skips the publish but still writes
\* the reports.
HandlerWritesReports(step) == IF step = "fetch" THEN "xl_stamp" ELSE "except"

\* Where control goes when the named step raises: every step of the cycle is
\* inside the try block whose handler is `except Exception` (main.py:61, 86).
Handler(step) == "except"

\* Mutant: the handler marks the snapshot as not loaded.
ExceptHandlerClearsStamp(snap) == [snap EXCEPT !.last_updated = NoStamp]

\* Mutant: the handler rolls the snapshot back.
ExceptHandlerRollsBack(snap) == EmptySnapshot

\* The handler logs and falls through (main.py:86-87): the snapshot is as it was.
ExceptHandler(snap) == snap

\* `with data_lock` (main.py:69): the publish enters when the lock is free.
WriterMayEnter(t) == data_lock = Free

\* Mutant: only the first assignment is made inside `with data_lock`.
LockedFirstOnly == 2 - 1

\* Mutant: the `with data_lock` block does not end after the assignments.
LockedThroughReports == 5 + 1

\* The number of assignments made inside `with data_lock` (main.py:70-74);
\* the lock is released after the last of them.
LockedAssignments == 5

\* Thread t enters fetch_and_process_data.
Call(t) ==
    /\ ncycles < lim.cycles
    /\ ncycles' = ncycles + 1
    /\ outcome' = Append(outcome, "running")
    /\ calls' = Append(calls, 0)
    /\ pc' = [pc EXCEPT ![t] = "fetch"]
    /\ cyc' = [cyc EXCEPT ![t] = ncycles + 1]
    /\ idx' = [idx EXCEPT ![t] = 1]
    /\ UNCHANGED <<loc, ts, tsdone, nfaults>>

\* Thread t leaves fetch_and_process_data: its locals are gone.
Return(t) ==
    /\ pc' = [pc EXCEPT ![t] = ReturnTo(t)]
    /\ cyc' = [cyc EXCEPT ![t] = 0]
    /\ loc' = [loc EXCEPT ![t] = NoLocals]
    /\ idx' = [idx EXCEPT ![t] = 0]
    /\ ts' = [ts EXCEPT ![t] = <<>>]
    /\ tsdone' = [tsdone EXCEPT ![t] = {}]

\* An operation may fail while the run's budget of failures lasts.
MayFail == nfaults < lim.faults

\* Thread t's step raises: the cycle's outcome is the step, control goes to
\* the handler.
Raise(t, step) ==
    /\ MayFail
    /\ nfaults' = nfaults + 1
    /\ outcome' = [outcome EXCEPT ![cyc[t]] = step]
    /\ pc' = [pc EXCEPT ![t] = Handler(step)]

\* main.py:63-66: the four fetch operations, in order.
Fetch(t) ==
    /\ pc[t] = "fetch"
    /\ calls' = [calls EXCEPT ![cyc[t]] = @ + 1]
    /\ \/ /\ loc' = [loc EXCEPT ![t][Kinds[idx[t]]] = cyc[t]]
          /\ pc' = [pc EXCEPT ![t] = IF idx[t] = Len(Kinds) THEN "acquire" ELSE "fetch"]
          /\ idx' = [idx EXCEPT ![t] = IF idx[t] = Len(Kinds) THEN 1 ELSE @ + 1]
          /\ UNCHANGED <<outcome, nfaults>>
       \/ /\ Raise(t, "fetch")
          /\ UNCHANGED <<loc, idx>>
    /\ UNCHANGED <<snapVars, cyc, ts, tsdone, ncycles, files, schedVars, readVars,
                   envVars>>

\* main.py:69: `with data_lock` acquires the lock.
Acquire(t) ==
    /\ pc[t] = "acquire"
    /\ WriterMayEnter(t)
    /\ data_lock' = t
    /\ pc' = [pc EXCEPT ![t] = "publish"]
    /\ idx' = [idx EXCEPT ![t] = 1]
    /\ UNCHANGED <<latest_data, published, cyc, loc, ts, tsdone, histVars, files,
                   schedVars, readVars, envVars>>

\* main.py:70-74: one assignment to latest_data; after the last one the
\* `with` block ends and releases the lock.
Assign(t) ==
    /\ pc[t] = "publish"
    /\ LET f == Fields[idx[t]]
           v == IF f = "last_updated" THEN Stamp(cyc[t], now) ELSE loc[t][f]
       IN  latest_data' = [latest_data EXCEPT ![f] = v]
    /\ data_lock' = IF idx[t] = LockedAssignments /\ data_lock = t THEN Free ELSE data_lock
    /\ IF idx[t] = Len(Fields)
       THEN /\ pc' = [pc EXCEPT ![t] = "xl_stamp"]
            /\ published' = Append(published, cyc[t])
            /\ UNCHANGED idx
       ELSE /\ idx' = [idx EXCEPT ![t] = @ + 1]
            /\ UNCHANGED <<pc, published>>
    /\ UNCHANGED <<cyc, loc, ts, tsdone, histVars, files, schedVars, readVars,
                   envVars>>

\* ---------------- generate_excel_reports (ERP_Data_Extractor.py:351-413)
\* How a write that raises leaves its target: untouched (the open failed) or
\* holding an incomplete file (the write failed part-way, or ExcelWriter's
\* exit saved what had been built).
FailedWrites == {"untouched", "incomplete"}

\* Mutant: the timestamped file is moved, not copied.
MoveFile(fs, src, dst, t) == Unlink(Put(fs, dst, [fs[src] EXCEPT !.mtime = t]), src)

\* shutil.copy(src, dst) at time t (ERP_Data_Extractor.py:407): dst gets the
\* bytes src holds now; src stays.
CopyFile(fs, src, dst, t) == Put(fs, dst, [fs[src] EXCEPT !.mtime = t])

\* ERP_Data_Extractor.py:370: the timestamp of the workbook's file name.
XlStamp(t) ==
    /\ pc[t] = "xl_stamp"
    /\ ts' = [ts EXCEPT ![t] = Strftime(now)]
    /\ pc' = [pc EXCEPT ![t] = "xl_write"]
    /\ UNCHANGED <<snapVars, cyc, loc, idx, tsdone, histVars, files, schedVars,
                   readVars, envVars>>

\* ERP_Data_Extractor.py:374-403: the ExcelWriter block writes the
\* timestamped workbook; a failure is logged and re-raised (411-413).
XlWrite(t) ==
    /\ pc[t] = "xl_write"
    /\ LET p == TimestampedPath("workbook", ts[t])
       IN  \/ /\ files' = Put(files, p, File(cyc[t], TRUE, now))
              /\ tsdone' = [tsdone EXCEPT ![t] = @ \cup {"workbook"}]
              /\ pc' = [pc EXCEPT ![t] = "xl_copy"]
              /\ UNCHANGED <<outcome, nfaults>>
           \/ /\ \E how \in FailedWrites :
                    files' = IF how = "untouched" THEN files
                             ELSE Put(files, p, File(cyc[t], FALSE, now))
              /\ Raise(t, "excel")
              /\ UNCHANGED tsdone
    /\ UNCHANGED <<snapVars, cyc, loc, idx, ts, calls, ncycles, schedVars,
                   readVars, envVars>>

\* ERP_Data_Extractor.py:406-407: the workbook is copied to daily_report.xlsx.
XlCopy(t) ==
    /\ pc[t] = "xl_copy"
    /\ LET src == TimestampedPath("workbook", ts[t])
           dst == LatestPath("workbook")
       IN  \/ /\ src \in DOMAIN files
              /\ files' = CopyFile(files, src, dst, now)
              /\ pc' = [pc EXCEPT ![t] = "csv_stamp"]
              /\ UNCHANGED <<outcome, nfaults>>
           \/ /\ \E how \in FailedWrites :
                    files' = IF how = "untouched" \/ src \notin DOMAIN files
                             THEN files
                             ELSE Put(files, dst, File(files[src].data, FALSE, now))
              /\ Raise(t, "excel")
    /\ UNCHANGED <<snapVars, cyc, loc, idx, ts, tsdone, calls, ncycles, schedVars,
                   readVars, envVars>>

\* ------------------ generate_csv_exports (ERP_Data_Extractor.py:466-506)
\* ERP_Data_Extractor.py:485: one timestamp for the four exports.
CsvStamp(t) ==
    /\ pc[t] = "csv_stamp"
    /\ ts' = [ts EXCEPT ![t] = Strftime(now)]
    /\ idx' = [idx EXCEPT ![t] = 1]
    /\ pc' = [pc EXCEPT ![t] = "csv_ts"]
    /\ UNCHANGED <<snapVars, cyc, loc, tsdone, histVars, files, schedVars,
                   readVars, envVars>>

\* ERP_Data_Extractor.py:499: df.to_csv(filename), the timestamped export.
CsvTs(t) ==
    /\ pc[t] = "csv_ts"
    /\ LET a == Kinds[idx[t]]
           p == TimestampedPath(a, ts[t])
       IN  \/ /\ files' = Put(files, p, File(cyc[t], TRUE, now))
              /\ tsdone' = [tsdone EXCEPT ![t] = @ \cup {a}]
              /\ pc' = [pc EXCEPT ![t] = "csv_latest"]
              /\ UNCHANGED <<outcome, nfaults>>
           \/ /\ \E how \in FailedWrites :
                    files' = IF how = "untouched" THEN files
                             ELSE Put(files, p, File(cyc[t], FALSE, now))
              /\ Raise(t, "csv")
              /\ UNCHANGED tsdone
    /\ UNCHANGED <<snapVars, cyc, loc, idx, ts, calls, ncycles, schedVars,
                   readVars, envVars>>

\* ERP_Data_Extractor.py:500: df.to_csv(latest_filename); after the fourth
\* dataset the cycle logs success and returns (main.py:84).
CsvLatest(t) ==
    /\ pc[t] = "csv_latest"
    /\ LET a == Kinds[idx[t]]
           p == LatestPath(a)
       IN  \/ /\ files' = Put(files, p, File(cyc[t], TRUE, now))
              /\ UNCHANGED nfaults
              /\ IF idx[t] = Len(Kinds)
                 THEN /\ Return(t)
                      /\ outcome' = [outcome EXCEPT ![cyc[t]] = "ok"]
                 ELSE /\ pc' = [pc EXCEPT ![t] = "csv_ts"]
                      /\ idx' = [idx EXCEPT ![t] = @ + 1]
                      /\ UNCHANGED <<outcome, cyc, loc, ts, tsdone>>
           \/ /\ \E how \in FailedWrites :
                    files' = IF how = "untouched" THEN files
                             ELSE Put(files, p, File(cyc[t], FALSE, now))
              /\ Raise(t, "csv")
              /\ UNCHANGED <<cyc, loc, idx, ts, tsdone>>
    /\ UNCHANGED <<snapVars, calls, ncycles, schedVars, readVars, envVars>>

\* main.py:86-87: the handler logs the error; the function returns.
Except(t) ==
    /\ pc[t] = "except"
    /\ latest_data' = ExceptHandler(latest_data)
    /\ Return(t)
    /\ UNCHANGED <<data_lock, published, histVars, files, schedVars, readVars,
                   envVars>>

\* One step of a refresh cycle by thread t.
CycleStep(t) ==
    \/ Fetch(t)
    \/ Acquire(t)
    \/ Assign(t)
    \/ XlStamp(t)
    \/ XlWrite(t)
    \/ XlCopy(t)
    \/ CsvStamp(t)
    \/ CsvTs(t)
    \/ CsvLatest(t)
    \/ Except(t)

\* ------------------------------------------ start / scheduler (main.py:89-127)
Jobs == {"daily", "hourly"}

\* The orders in which run_pending may run the runnable jobs js: sorted by
\* next_run, which the model does not fix.
Orders(js) ==
    {q \in [1..Cardinality(js) -> js] : \A i, j \in DOMAIN q : i # j => q[i] # q[j]}

\* main.py:113: start() runs the initial cycle on the main thread.
Start ==
    /\ pc["main"] = "start"
    /\ Call("main")
    /\ UNCHANGED <<snapVars, files, schedVars, readVars, envVars>>

\* main.py:116-118 and 245: the jobs are registered, the scheduler thread is
\* started and Flask begins to serve requests.
ScheduleJobs ==
    /\ pc["main"] = "schedule_jobs"
    /\ pc' = [pc EXCEPT !["main"] = "serving", !["sched"] = "set_running"]
    /\ UNCHANGED <<snapVars, frameVars, histVars, files, schedVars, readVars,
                   envVars>>

\* main.py:101: run_scheduler sets self.running.
SetRunning ==
    /\ pc["sched"] = "set_running"
    /\ running' = TRUE
    /\ pc' = [pc EXCEPT !["sched"] = "loop"]
    /\ UNCHANGED <<snapVars, frameVars, histVars, files, due, todo, ran, readVars,
                   envVars>>

\* A job's next_run passes (an hour has gone by, or it is 08:00).
JobDue(j) ==
    /\ ncycles < lim.cycles
    /\ pc["main"] = "serving"
    /\ j \notin due
    /\ due' = due \cup {j}
    /\ UNCHANGED <<snapVars, pc, frameVars, histVars, files, running, todo, ran,
                   readVars, envVars>>

\* main.py:104-105: the loop tests self.running; run_pending collects the
\* runnable jobs.
LoopCheck ==
    /\ pc["sched"] = "loop"
    /\ IF running
       THEN /\ \E q \in Orders(due) : todo' = q
            /\ ran' = {}
            /\ pc' = [pc EXCEPT !["sched"] = "jobs"]
       ELSE /\ pc' = [pc EXCEPT !["sched"] = "exited"]
            /\ UNCHANGED <<todo, ran>>
    /\ UNCHANGED <<snapVars, frameVars, histVars, files, running, due, readVars,
                   envVars>>

\* run_pending runs the next runnable job: fetch_and_process_data, on the
\* scheduler thread (main.py:92, 95).
RunJob ==
    /\ pc["sched"] = "jobs"
    /\ todo # <<>>
    /\ Call("sched")
    /\ ran' = ran \cup {Head(todo)}
    /\ UNCHANGED <<snapVars, files, running, due, todo, readVars, envVars>>

\* The job returned: schedule computes its next run.
JobDone ==
    /\ pc["sched"] = "job_done"
    /\ due' = due \ {Head(todo)}
    /\ todo' = Tail(todo)
    /\ pc' = [pc EXCEPT !["sched"] = "jobs"]
    /\ UNCHANGED <<snapVars, frameVars, histVars, files, running, ran, readVars,
                   envVars>>

\* main.py:106: run_pending is over; time.sleep(60), then the loop test.
Sleep ==
    /\ pc["sched"] = "jobs"
    /\ todo = <<>>
    /\ pc' = [pc EXCEPT !["sched"] = "loop"]
    /\ UNCHANGED <<snapVars, frameVars, histVars, files, schedVars, readVars,
                   envVars>>

\* main.py:124: stop() clears self.running (called from the KeyboardInterrupt
\* handler while Flask serves, main.py:247-249), then waits for the thread.
Stop ==
    /\ pc["main"] = "serving"
    /\ running' = FALSE
    /\ pc' = [pc EXCEPT !["main"] = "joining"]
    /\ UNCHANGED <<snapVars, frameVars, histVars, files, due, todo, ran, readVars,
                   envVars>>

\* main.py:125-127: join(timeout=5) returns, because the scheduler thread
\* has ended or because the five seconds are over; stop() returns.
StopJoined ==
    /\ pc["main"] = "joining"
    /\ pc' = [pc EXCEPT !["main"] = "stopped"]
    /\ UNCHANGED <<snapVars, frameVars, histVars, files, schedVars, readVars,
                   envVars>>

\* ----------------------------------------- /api/refresh (main.py:193-198)
\* Mutant: the handler starts no thread while a cycle is in progress.
StartWaitsForCycle(t) == \A u \in Threads : pc[u] \notin CyclePcs

\* main.py:196-197: Thread(...) and thread.start() take no lock and look at
\* no other thread; start() returns once the new thread runs.
ThreadMayStart(t) == TRUE

\* main.py:198
RefreshInitiated == [status |-> 200, body |-> "Refresh initiated"]

\* refresh_data starts a thread that runs fetch_and_process_data, and answers.
RefreshData(t) ==
    /\ pc["main"] = "serving"
    /\ pc[t] = "idle"
    /\ ThreadMayStart(t)
    /\ Call(t)
    /\ ack' = [ack EXCEPT ![t] = RefreshInitiated]
    /\ UNCHANGED <<snapVars, files, schedVars, rpc, resp, health, envVars>>

\* The wall clock advances by a second.
Tick ==
    /\ now < lim.ticks
    /\ now' = now + 1
    /\ UNCHANGED <<snapVars, pc, frameVars, histVars, files, schedVars, readVars,
                   sweep, summary, lim>>

\* ------------------- get_summary / get_department_data (main.py:138-191)
\* Mutant: the handler reads without waiting for the lock.
ReaderIgnoresLock(r) == TRUE

\* `with data_lock` (main.py:141, 173): the handler enters when the lock is free.
ReaderMayEnter(r) == data_lock = Free

\* Mutant: the handler does not test for a missing snapshot.
NoDataNeverTested(snap) == FALSE

\* main.py:142, 174: `if not latest_data['last_updated']`.
NoData(snap) == ~Truthy(snap.last_updated)

Reply(q, st, err, snap, d) ==
    [req |-> q, status |-> st, error |-> err, obs |-> snap, data |-> d,
     seen |-> Len(published)]

\* The response to request q computed under the lock from the snapshot.
\* len() or to_dict() of None raises: Flask answers 500.
Response(q, snap) ==
    IF NoData(snap) THEN Reply(q, 404, "No data available", snap, None)
    ELSE IF q[1] = "summary"
    THEN IF \E k \in KindSet : snap[k] = None
         THEN Reply(q, 500, "Internal Server Error", snap, None)
         ELSE Reply(q, 200, "", snap, None)
    ELSE IF q[2] \notin KindSet
    THEN Reply(q, 400, "Invalid department", snap, None)
    ELSE IF snap[q[2]] = None
    THEN Reply(q, 500, "Internal Server Error", snap, None)
    ELSE Reply(q, 200, "", snap, snap[q[2]])

Requests == {<<"summary", "none">>} \cup {<<"department", d>> : d \in DeptNames}

\* The handler takes data_lock.
BeginRead(r) ==
    /\ pc["main"] = "serving"
    /\ rpc[r] = "idle"
    /\ ReaderMayEnter(r)
    /\ data_lock' = r
    /\ rpc' = [rpc EXCEPT ![r] = "locked"]
    /\ UNCHANGED <<latest_data, published, pc, frameVars, histVars, files,
                   schedVars, resp, health, ack, envVars>>

\* The handler computes its response and leaves the `with` block.
EndRead(r) ==
    /\ rpc[r] = "locked"
    /\ \E q \in Requests : resp' = [resp EXCEPT ![r] = Response(q, latest_data)]
    /\ data_lock' = IF data_lock = r THEN Free ELSE data_lock
    /\ rpc' = [rpc EXCEPT ![r] = "idle"]
    /\ UNCHANGED <<latest_data, published, pc, frameVars, histVars, files,
                   schedVars, health, ack, envVars>>

\* ------------------------------------------- /health (main.py:220-227)
\* Mutant: the handler stores the value it formats back into latest_data.
HealthCheckStoresNone(snap) == [snap EXCEPT !.last_updated = NoStamp]

\* health_check assigns nothing to latest_data.
AfterHealthCheck(snap) == snap

\* main.py:225-226: the handler reads erp_system.running and tests
\* latest_data['last_updated'], without taking data_lock.
HealthBegin ==
    /\ pc["main"] = "serving"
    /\ health.pc = "idle"
    /\ health.n < MaxChecks
    /\ health' = [health EXCEPT !.pc = "tested", !.running = running,
                                !.loaded = Truthy(latest_data.last_updated)]
    /\ UNCHANGED <<snapVars, pc, frameVars, histVars, files, schedVars, rpc, resp,
                   ack, envVars>>

\* main.py:226: if the test was true the handler reads last_updated again,
\* for isoformat(); it answers.
HealthEnd ==
    /\ health.pc = "tested"
    /\ health' = [health EXCEPT
                     !.pc = "idle",
                     !.n = @ + 1,
                     !.last_update = IF health.loaded THEN latest_data.last_updated
                                     ELSE NoStamp]
    /\ latest_data' = AfterHealthCheck(latest_data)
    /\ UNCHANGED <<data_lock, published, pc, frameVars, histVars, files, schedVars,
                   rpc, resp, ack, envVars>>

\* ------------------------------------------------------- the specification
\* start() up to the point where Flask serves requests.
Boot == Start \/ ScheduleJobs

\* The scheduler thread and the jobs coming due.
Scheduler ==
    \/ SetRunning
    \/ \E j \in Jobs : JobDue(j)
    \/ LoopCheck
    \/ RunJob
    \/ JobDone
    \/ Sleep

\* POST /api/refresh.
Refresh == \E t \in ReqThreads : RefreshData(t)

\* The refresh cycles in progress.
Cycles == \E t \in Threads : CycleStep(t)

\* GET /api/summary and /api/department/<dept_name>.
Queries == \E r \in Readers : BeginRead(r) \/ EndRead(r)

Next == Boot \/ Refresh \/ Cycles \/ Queries

Init == InitWith(Budget(MaxCycles, MaxFaults, 0))

\* The program serving queries and on-demand refreshes while no scheduled
\* job comes due.
Spec == Init /\ [][Next]_vars

\* The program running its scheduled jobs, with no request arriving.
SchedNext == Boot \/ Scheduler \/ Cycles

SchedSpec == Init /\ [][SchedNext]_vars

\* A thread that can take a step of its cycle eventually takes it.
FairSchedSpec == SchedSpec /\ \A t \in Threads : WF_vars(CycleStep(t))

\* The hourly job and on-demand refreshes together.
RaceNext ==
    \/ Boot
    \/ SetRunning
    \/ JobDue("hourly")
    \/ LoopCheck
    \/ RunJob
    \/ JobDone
    \/ Sleep
    \/ Refresh
    \/ Cycles

RaceSpec == Init /\ [][RaceNext]_vars

\* The report files written by the initial cycle and by on-demand refreshes,
\* in the same second or in different seconds.
WriteInit == InitWith(Budget(WriteCycles, MaxFaults, MaxTick))

WriteNext == Boot \/ Refresh \/ Cycles \/ Tick

WriteSpec == WriteInit /\ [][WriteNext]_vars

\* The requests Flask serves while cycles run: queries, health checks and
\* refresh triggers.
ServeInit == InitWith(Budget(ServeCycles, MaxFaults, 0))

ServeNext == Boot \/ Refresh \/ Cycles \/ Queries \/ HealthBegin \/ HealthEnd

ServeSpec == ServeInit /\ [][ServeNext]_vars

\* start(), the scheduler thread and stop().
StopNext == Boot \/ Scheduler \/ Cycles \/ Stop \/ StopJoined

StopSpec == Init /\ [][StopNext]_vars

\* --------------- cleanup_old_reports (ERP_Data_Extractor.py:530-553)
\* Config.KEEP_REPORTS_DAYS and the default of `days`.
KeepReportsDays == 30

\* The directories Path(dir).rglob searches: dir and what lies below it.
SubDirs(dir) == IF dir = ReportDir THEN {ReportDir, CsvDir} ELSE {dir}

\* fnmatch of a file name against '*_*' + ext: the name ends with ext and
\* has an underscore before it.
GlobMatch(name, ext) ==
    /\ Len(name) >= 2
    /\ name[Len(name)] = ext
    /\ \E i \in 1..(Len(name) - 1) : name[i] = "_"

\* dir.rglob('*_*' + ext) (ERP_Data_Extractor.py:542, 547).
RGlob(fs, dir, ext) ==
    {p \in DOMAIN fs : p[1] \in SubDirs(dir) /\ GlobMatch(Tail(p), ext)}

\* Mutant: a file exactly as old as the limit is deleted too.
OlderOrEqual(mtime, cutoff) == mtime <= cutoff

\* ERP_Data_Extractor.py:543, 548: `st_mtime < cutoff_time`.
Older(mtime, cutoff) == mtime < cutoff

\* ERP_Data_Extractor.py:540.
CutoffTime(t, days) == t - days * SecondsPerDay

\* The values of `days` the sweep is called with.
SweepDays == {KeepReportsDays - 1, KeepReportsDays}

\* cleanup_old_reports(days) is called: the cutoff is computed and the
\* first loop lists its candidates (ERP_Data_Extractor.py:540-542).
SweepBegin(days) ==
    /\ sweep.pc = "idle"
    /\ sweep.runs < MaxSweeps
    /\ sweep' = [pc |-> "xlsx", days |-> days, cutoff |-> CutoffTime(now, days),
                 todo |-> RGlob(files, ReportDir, ".xlsx"), runs |-> sweep.runs,
                 prev |-> [days |-> sweep.days, cutoff |-> sweep.cutoff,
                           store |-> DOMAIN files]]
    /\ UNCHANGED <<snapVars, pc, frameVars, histVars, files, schedVars, readVars,
                   now, summary, lim>>

\* Mutant: the loop is left after its first candidate.
LoopEndsAfterFirst(cands, p) == {}

\* The candidates the loop still has to visit after p.
Remaining(cands, p) == cands \ {p}

\* One iteration of either loop (ERP_Data_Extractor.py:542-550): stat the
\* file and, if it is older than the cutoff, unlink it.  A stat or unlink
\* that raises ends the sweep in the handler (552-553).
SweepVisit ==
    /\ sweep.pc \in {"xlsx", "csv"}
    /\ \E p \in sweep.todo :
         IF p \in DOMAIN files /\ ~Older(files[p].mtime, sweep.cutoff)
         THEN /\ sweep' = [sweep EXCEPT !.todo = Remaining(@, p)]
              /\ UNCHANGED <<files, nfaults>>
         ELSE \/ /\ p \in DOMAIN files
                 /\ files' = Unlink(files, p)
                 /\ sweep' = [sweep EXCEPT !.todo = Remaining(@, p)]
                 /\ UNCHANGED nfaults
              \/ /\ MayFail \/ p \notin DOMAIN files
                 /\ nfaults' = nfaults + 1
                 /\ sweep' = [sweep EXCEPT !.pc = "idle", !.todo = {}, !.runs = @ + 1]
                 /\ UNCHANGED files
    /\ UNCHANGED <<snapVars, pc, frameVars, outcome, calls, ncycles, schedVars,
                   readVars, now, summary, lim>>

\* A loop has visited all its candidates: the second loop lists its own
\* (ERP_Data_Extractor.py:547), or the sweep returns.
SweepAdvance ==
    /\ sweep.pc \in {"xlsx", "csv"}
    /\ sweep.todo = {}
    /\ sweep' = IF sweep.pc = "xlsx"
                THEN [sweep EXCEPT !.pc = "csv", !.todo = RGlob(files, CsvDir, ".csv")]
                ELSE [sweep EXCEPT !.pc = "idle", !.runs = @ + 1]
    /\ UNCHANGED <<snapVars, pc, frameVars, histVars, files, schedVars, readVars,
                   now, summary, lim>>

\* The report directory the sweep finds: written by earlier runs of the
\* program, 29, 30 and 31 days ago.
Ages == {KeepReportsDays - 1, KeepReportsDays, KeepReportsDays + 1}

SweepStart == (KeepReportsDays + 2) * SecondsPerDay

SweepArtifacts == {"workbook", "purchase"}

WrittenAt(age) == SweepStart - age * SecondsPerDay

\* The timestamped files of every age, and per artifact a 'latest' file of
\* the age given by latestAge (0: there is none).
OldDirectory(latestAge) ==
    LET stamped == {<<a, g>> : a \in SweepArtifacts, g \in Ages}
        latest == {a \in SweepArtifacts : latestAge[a] # 0}
        paths == {TimestampedPath(x[1], Strftime(WrittenAt(x[2]))) : x \in stamped}
                 \cup {LatestPath(a) : a \in latest}
    IN  [p \in paths |->
            IF p \in LatestPaths
            THEN LET a == CHOOSE b \in latest : LatestPath(b) = p
                 IN  File(None, TRUE, WrittenAt(latestAge[a]))
            ELSE LET x == CHOOSE y \in stamped :
                              TimestampedPath(y[1], Strftime(WrittenAt(y[2]))) = p
                 IN  File(None, TRUE, WrittenAt(x[2]))]

SweepInit ==
    /\ InitProgram(Budget(0, MaxFaults, SweepStart + MaxTick))
    /\ summary = NoSummary
    /\ now = SweepStart
    /\ \E latestAge \in [SweepArtifacts -> Ages \cup {0}] :
          files = OldDirectory(latestAge)

SweepNext ==
    \/ \E days \in SweepDays : SweepBegin(days)
    \/ SweepVisit
    \/ SweepAdvance
    \/ Tick

\* cleanup_old_reports called on a report directory left by earlier runs.
SweepSpec == SweepInit /\ [][SweepNext]_vars

\* ------ _create_summary (ERP_Data_Extractor.py:415-453), get_summary
\* A DataFrame is modelled by its columns and, per record, its status and
\* the value of its kind's aggregate column: the amount in hundredths for
\* purchase, the quantity for the other kinds.
AggColumn(k) == IF k = "purchase" THEN "amount" ELSE "quantity"

KindColumns(k) == {"status", AggColumn(k)}

DataFrame(c, r) == [cols |-> c, rows |-> r]

\* The status values the extractor produces (ERP_Data_Extractor.py:64-186).
Statuses(k) ==
    IF k = "purchase" THEN {"Pending", "Approved", "Delivered"}
    ELSE IF k = "shipment" THEN {"Dispatched", "In Transit", "Pending", "Delivered"}
    ELSE {"Completed", "In Progress", "Pending"}

\* df[df['status'] == x], df[df['status'].isin(xs)]: the records selected.
Where(df, xs) ==
    LET Selected(r) == r.status \in xs IN SelectSeq(df.rows, Selected)

\* Series.sum(): 0 for no records.
RECURSIVE SumOf(_)
SumOf(rows) == IF rows = <<>> THEN 0 ELSE Head(rows).value + SumOf(Tail(rows))

\* The ',' format option: the digits in groups of three, most significant
\* group first.
RECURSIVE Groups(_)
Groups(n) == IF n < 1000 THEN <<n>> ELSE Append(Groups(n \div 1000), n % 1000)

\* A formatted figure: what stands before the digits, the digit groups, and
\* the decimals after the point (none: no point).
Text(sign, groups, decimals) ==
    [sign |-> sign, groups |-> groups, decimals |-> decimals]

\* f"{x:,.2f}" after the currency sign, for an amount of c hundredths.
FormatAmount(c) == Text("Rs", Groups(c \div 100), <<c % 100>>)

\* f"{x:,}"
FormatCount(n) == Text("", Groups(n), <<>>)

\* 'N/A'
NotAvailable == Text("N/A", <<>>, <<>>)

\* Mutant: every kind counts the status 'Completed'.
CompletedEverywhere(k) == {"Completed"}

\* The statuses each kind's 'Completed' count selects
\* (ERP_Data_Extractor.py:428, 435, 442, 449).
CompletedStatuses(k) ==
    IF k = "purchase" THEN {"Approved", "Delivered"}
    ELSE IF k = "shipment" THEN {"Delivered"}
    ELSE {"Completed"}

\* Mutant: the aggregate is guarded by the records, not by the column.
AggregateIfRecords(k, df) ==
    IF df.rows = <<>> THEN Text("N/A", <<>>, <<>>) ELSE Text("", <<0>>, <<>>)

\* 'Total Value' / 'Total Quantity' / 'Total Packed' / 'Total Shipped':
\* the formatted sum if the column is there, else 'N/A'.
Aggregate(k, df) ==
    IF AggColumn(k) \in df.cols
    THEN IF k = "purchase" THEN FormatAmount(SumOf(df.rows))
                           ELSE FormatCount(SumOf(df.rows))
    ELSE NotAvailable

\* One dict of the summary list.
SummaryRow(k, df) ==
    [TotalRecords |-> Len(df.rows),
     Pending |-> Len(Where(df, {"Pending"})),
     Completed |-> Len(Where(df, CompletedStatuses(k))),
     Aggregate |-> Aggregate(k, df)]

\* _create_summary(purchase_df, production_df, packing_df, shipment_df):
\* df['status'] of a frame without that column raises KeyError.
CreateSummaryOf(dfs) ==
    IF \E k \in KindSet : "status" \notin dfs[k].cols
    THEN Raised("KeyError")
    ELSE Returned([k \in KindSet |-> SummaryRow(k, dfs[k])])

\* The columns get_summary reads of each dataset (main.py:145-164).
ApiColumns(k) == IF k = "shipment" THEN {"status"} ELSE KindColumns(k)

\* The body of get_summary on a published snapshot with these datasets
\* (main.py:145-164).
GetSummaryOf(dfs) ==
    IF \E k \in KindSet : ~(ApiColumns(k) \subseteq dfs[k].cols)
    THEN Raised("KeyError")
    ELSE Returned(
        [purchase |-> [total_orders |-> Len(dfs.purchase.rows),
                       total_amount |-> SumOf(dfs.purchase.rows),
                       pending |-> Len(Where(dfs.purchase, {"Pending"}))],
         production |-> [total_units |-> SumOf(dfs.production.rows),
                         completed |-> Len(Where(dfs.production, {"Completed"})),
                         in_progress |-> Len(Where(dfs.production, {"In Progress"}))],
         packing |-> [total_packed |-> SumOf(dfs.packing.rows),
                      completed |-> Len(Where(dfs.packing, {"Completed"}))],
         shipment |-> [total_shipments |-> Len(dfs.shipment.rows),
                       dispatched |-> Len(Where(dfs.shipment, {"Dispatched"})),
                       pending |-> Len(Where(dfs.shipment, {"Pending"}))]])

\* _create_summary is applied to the DataFrames.
CreateSummary ==
    /\ summary.dfs # <<>>
    /\ "sheet" \notin summary.done
    /\ summary' = [summary EXCEPT !.sheet = CreateSummaryOf(summary.dfs),
                                  !.done = @ \cup {"sheet"}]
    /\ UNCHANGED <<snapVars, pc, frameVars, histVars, files, schedVars, readVars,
                   now, sweep, lim>>

\* get_summary computes its statistics from the DataFrames.
GetSummary ==
    /\ summary.dfs # <<>>
    /\ "api" \notin summary.done
    /\ summary' = [summary EXCEPT !.api = GetSummaryOf(summary.dfs),
                                  !.done = @ \cup {"api"}]
    /\ UNCHANGED <<snapVars, pc, frameVars, histVars, files, schedVars, readVars,
                   now, sweep, lim>>

\* The amounts (in hundredths) and quantities of the records drawn.
Values == {0, 1250, 50000}

\* The sequences of at most n elements of S.
SeqsUpTo(S, n) == UNION {[1..m -> S] : m \in 0..n}

\* The DataFrames of kind k drawn: with or without each of the two columns
\* read, and up to MaxRows records.
Frames(k) ==
    {DataFrame(c, r) :
        c \in SUBSET KindColumns(k),
        r \in SeqsUpTo([status : Statuses(k), value : Values], MaxRows)}

\* Ten purchase orders: 3 Pending, 4 Approved, 3 Delivered, of 500.00 each.
TenOrders ==
    DataFrame(KindColumns("purchase"),
              [i \in 1..10 |->
                  [status |-> IF i <= 3 THEN "Pending"
                              ELSE IF i <= 7 THEN "Approved" ELSE "Delivered",
                   value |-> 50000]])

\* A dataset of kind k with no records.
NoRecords(k) == DataFrame(KindColumns(k), <<>>)

\* The four DataFrames of a call: the one of kind k is f, the others have no
\* records.
Given(k, f) == [j \in KindSet |-> IF j = k THEN f ELSE NoRecords(j)]

SummaryInit ==
    /\ InitProgram(Budget(0, 0, 0))
    /\ files = <<>>
    /\ now = 0
    /\ \E k \in KindSet :
          \E f \in Frames(k) \cup (IF k = "purchase" THEN {TenOrders} ELSE {}) :
              summary = [NoSummary EXCEPT !.dfs = Given(k, f)]

SummaryNext == CreateSummary \/ GetSummary

\* The two summary computations applied to DataFrames of each kind.
SummarySpec == SummaryInit /\ [][SummaryNext]_vars

\* ================================================================ claims
Range(q) == {q[i] : i \in DOMAIN q}

\* snap is what the publish of cycle c leaves in latest_data.
IsSnapshotOf(snap, c) ==
    /\ \A k \in KindSet : snap[k] = c
    /\ snap.last_updated.cyc = c

Complete(snap) ==
    /\ \A k \in KindSet : snap[k] # None
    /\ Truthy(snap.last_updated)

Answered(r) == resp[r].status # 0

\* C1: every read (get_summary, get_department_data) observes the four
\* datasets and the timestamp of exactly one publish, the last one completed
\* when it ran (or the empty snapshot before the first publish); it never
\* observes datasets of two publishes.
C1_AtomicRead ==
    \A r \in Readers :
        Answered(r) =>
            IF resp[r].seen = 0
            THEN resp[r].obs = EmptySnapshot
            ELSE IsSnapshotOf(resp[r].obs, published[resp[r].seen])

\* A read returned the first publish, and a second publish is under way.
C1_Witness ==
    \E r \in Readers, t \in Threads :
        /\ resp[r].status = 200
        /\ resp[r].seen = 1
        /\ pc[t] = "publish"
        /\ idx[t] > 2

\* The thread t takes this step.
Acts(t) == pc'[t] # pc[t] \/ idx'[t] # idx[t]

\* C3: a cycle in which a fetch fails leaves the published snapshot as it
\* was: no step of that cycle changes latest_data, and latest_data never
\* holds a dataset or a timestamp of that cycle.
C3_FetchFailureIsolation ==
    /\ [][\A t \in Threads :
            (Acts(t) /\ cyc[t] # 0 /\ outcome'[cyc[t]] = "fetch")
                => latest_data' = latest_data]_vars
    /\ [](\A c \in DOMAIN outcome :
            outcome[c] = "fetch" =>
                /\ \A k \in KindSet : latest_data[k] # c
                /\ latest_data.last_updated.cyc # c
                /\ c \notin Range(published))

\* The second cycle failed a fetch and has returned; the first publish stands.
C3_Witness ==
    /\ Len(outcome) >= 2
    /\ outcome[2] = "fetch"
    /\ IsSnapshotOf(latest_data, 1)
    /\ \A t \in Threads : ~InCycle(t)

\* C4: a cycle whose report generation failed has published, and its
\* snapshot is not rolled back: while no publish is under way, latest_data
\* is the snapshot of the last publish completed.
C4_ReportFailureKeepsSnapshot ==
    \A c \in DOMAIN outcome :
        outcome[c] \in {"excel", "csv"} =>
            /\ c \in Range(published)
            /\ (\A t \in Threads : pc[t] # "publish")
                   => IsSnapshotOf(latest_data, published[Len(published)])

\* The report of cycle 2 failed, the cycle has returned, and a reader got
\* cycle 2's data afterwards.
C4_Witness ==
    \E r \in Readers :
        /\ Len(outcome) >= 2
        /\ outcome[2] \in {"excel", "csv"}
        /\ \A t \in Threads : ~InCycle(t)
        /\ resp[r].status = 200
        /\ resp[r].obs.purchase = 2

\* C5: whenever a reader holds data_lock, the snapshot is empty (all five
\* fields unset) or complete (all five set).
C5_EmptyOrComplete ==
    \A r \in Readers :
        rpc[r] = "locked" => (latest_data = EmptySnapshot \/ Complete(latest_data))

\* A reader holds the lock on the empty snapshot while a cycle that has
\* fetched its four datasets waits to publish.
C5_Witness ==
    \E r \in Readers, t \in Threads :
        /\ rpc[r] = "locked"
        /\ latest_data = EmptySnapshot
        /\ pc[t] = "acquire"

\* C6: a query answers 404 'No data available' exactly when no refresh had
\* published before it ran.
C6_NoDataBeforeFirstPublish ==
    \A r \in Readers :
        Answered(r) =>
            ((resp[r].status = 404 /\ resp[r].error = "No data available")
                <=> resp[r].seen = 0)

\* A query was answered 'No data available', and a refresh has published since.
C6_Witness ==
    \E r \in Readers :
        /\ resp[r].status = 404
        /\ resp[r].error = "No data available"
        /\ Len(published) = 1

\* C2: at most one refresh cycle runs at a time: a trigger that arrives
\* while a cycle is in progress starts no cycle of its own.
C2_AtMostOneRefresh == Cardinality({t \in Threads : InCycle(t)}) <= 1

\* C7: whichever step of a refresh cycle fails, the cycle ends: control
\* comes back to the caller of fetch_and_process_data (start(), the
\* scheduler's run_pending), which goes on.
C7_CycleAlwaysReturns ==
    \A t \in Threads : InCycle(t) ~> (pc[t] = ReturnTo(t))

\* A scheduled cycle failed while writing its reports, and the scheduler
\* has started the next job's cycle.
C7_Witness ==
    /\ Len(outcome) = 3
    /\ outcome[2] \in {"excel", "csv"}
    /\ cyc["sched"] = 3
    /\ pc["sched"] = "fetch"

\* C9: a report write in which an I/O step fails has changed none of the
\* five 'latest' files: none of them holds the data of that cycle.
C9_AllOrNothing ==
    \A c \in DOMAIN outcome :
        outcome[c] \in {"excel", "csv"} =>
            \A a \in Artifacts :
                LatestPath(a) \in DOMAIN files => files[LatestPath(a)].data # c

\* The 'latest' file of artifact a is created or changed by this step.
LatestReplaced(a) ==
    /\ LatestPath(a) \in DOMAIN files'
    /\ LatestPath(a) \in DOMAIN files => files'[LatestPath(a)] # files[LatestPath(a)]

\* C10: a 'latest' file is created or replaced only by a write that has
\* already written its timestamped file of the same kind to the end, and
\* the timestamped file is still in place, unchanged, afterwards.
C10_LatestAfterTimestamped ==
    [][\A a \in Artifacts :
          LatestReplaced(a) =>
              \E t \in Threads :
                  LET p == TimestampedPath(a, ts[t])
                  IN  /\ Acts(t)
                      /\ a \in tsdone[t]
                      /\ p \in DOMAIN files
                      /\ p \in DOMAIN files'
                      /\ files'[p] = files[p]]_vars

\* Both the workbook and the last CSV export have a 'latest' file written
\* by cycle 2, and cycle 1's timestamped files are still there.
C10_Witness ==
    /\ LatestPath("workbook") \in DOMAIN files
    /\ LatestPath("shipment") \in DOMAIN files
    /\ files[LatestPath("workbook")].data = 2
    /\ files[LatestPath("shipment")].data = 2
    /\ TimestampedPath("workbook", Strftime(0)) \in DOMAIN files
    /\ TimestampedPath("shipment", Strftime(0)) \in DOMAIN files
    /\ files[TimestampedPath("workbook", Strftime(0))].data = 1
    /\ files[TimestampedPath("shipment", Strftime(0))].data = 1

\* C8: the retention sweep never deletes a 'latest' file, whatever its age.
C8_LatestNeverDeleted ==
    [][\A p \in LatestPaths : p \in DOMAIN files => p \in DOMAIN files']_vars

\* The timestamped files of artifact a that were written to the end.
TimestampedFiles(a) ==
    {p \in DOMAIN files :
        /\ p # LatestPath(a)
        /\ files[p].complete
        /\ Len(p) > Len(BaseName(a)) + 2
        /\ SubSeq(p, 1, Len(BaseName(a)) + 1) = <<ArtifactDir(a)>> \o BaseName(a)
        /\ p[Len(p)] = Extension(a)}

\* The content of a file: what it holds, whatever its modification time.
Content(f) == <<f.data, f.complete>>

\* C11: whenever no refresh cycle is running, each 'latest' file has the
\* content of a most recently written timestamped file of its kind (files
\* that a failed write left incomplete are not counted).
C11_LatestIsMostRecent ==
    (\A t \in Threads : ~InCycle(t)) =>
        \A a \in Artifacts :
            TimestampedFiles(a) # {} =>
                /\ LatestPath(a) \in DOMAIN files
                /\ \E p \in TimestampedFiles(a) :
                      /\ \A q \in TimestampedFiles(a) : files[q].mtime <= files[p].mtime
                      /\ Content(files[LatestPath(a)]) = Content(files[p])

\* C12: once stop() has cleared self.running, the scheduler loop's next
\* test of the flag ends the loop: the loop does not go on to run_pending.
C12_StopEndsLoop ==
    [][(pc["main"] \in {"joining", "stopped"} /\ pc["sched"] = "loop")
          => pc'["sched"] \in {"loop", "exited"}]_vars

\* C13: when the daily job and the hourly job are pending in the same pass
\* of run_pending, the pass runs one refresh cycle, not one per job.
C13_OneCyclePerPass == Cardinality(ran) <= 1

\* The positions inside generate_excel_reports and inside generate_csv_exports.
InExcelWrite(t) == pc[t] \in {"xl_stamp", "xl_write", "xl_copy"}
InCsvWrite(t) == pc[t] \in {"csv_stamp", "csv_ts", "csv_latest"}

\* C14: no two threads are inside generate_excel_reports at the same time,
\* and no two inside generate_csv_exports.
C14_WritesNeverInterleave ==
    \A t, u \in Threads :
        t # u => /\ ~(InExcelWrite(t) /\ InExcelWrite(u))
                 /\ ~(InCsvWrite(t) /\ InCsvWrite(u))

\* C15: a refresh cycle holds data_lock only while it is at the five
\* assignments: never during a fetch, a report write or the handler.
C15_LockOnlyWhileAssigning ==
    \A t \in Threads : data_lock = t => pc[t] = "publish"

\* A reader holds the lock, inside its handler, while the second cycle is
\* writing its workbook.
C15_Witness ==
    \E r \in Readers, t \in Threads :
        /\ rpc[r] = "locked"
        /\ pc[t] = "xl_write"
        /\ cyc[t] = 2

\* The timestamped files a sweep with the cutoff of the last one would delete.
Expired ==
    {p \in (RGlob(files, ReportDir, ".xlsx") \cup RGlob(files, CsvDir, ".csv"))
           \ LatestPaths :
        Older(files[p].mtime, sweep.cutoff)}

\* C16: when a sweep has returned, the only timestamped files older than its
\* cutoff that are left are those whose deletion failed.
C16_FailedDeletionSkipped ==
    (sweep.pc = "idle" /\ sweep.runs >= 1) => Cardinality(Expired) <= nfaults

\* The timestamped file of artifact a written `age` days before SweepStart.
StampedAged(a, age) == TimestampedPath(a, Strftime(WrittenAt(age)))

\* C17: after a first sweep in which no deletion failed, a timestamped file
\* is gone exactly when its modification time is strictly before the
\* sweep's cutoff (now - days * 86400 at the call); a file exactly at the
\* cutoff is kept.
C17_RetentionBoundary ==
    (sweep.pc = "idle" /\ sweep.runs = 1 /\ nfaults = 0) =>
        \A a \in SweepArtifacts, age \in Ages :
            StampedAged(a, age) \notin DOMAIN files
                <=> WrittenAt(age) < sweep.cutoff

\* A 30-day sweep called at SweepStart has returned: the files aged 31 days
\* are gone, those aged 30 and 29 days are there.
C17_Witness ==
    /\ sweep.pc = "idle"
    /\ sweep.runs = 1
    /\ nfaults = 0
    /\ sweep.cutoff = SweepStart - KeepReportsDays * SecondsPerDay
    /\ \A a \in SweepArtifacts :
          /\ StampedAged(a, KeepReportsDays + 1) \notin DOMAIN files
          /\ StampedAged(a, KeepReportsDays) \in DOMAIN files
          /\ StampedAged(a, KeepReportsDays - 1) \in DOMAIN files

\* A second (or later) sweep has returned, it had the same `days` as the one
\* before it, and no deletion has failed.
SweptTwice ==
    /\ sweep.pc = "idle"
    /\ sweep.runs >= 2
    /\ sweep.days = sweep.prev.days
    /\ nfaults = 0

CountOf(df, xs) == Cardinality({i \in DOMAIN df.rows : df.rows[i].status \in xs})

\* The sum of the values of the records of df.
RECURSIVE TotalOver(_, _)
TotalOver(df, I) ==
    IF I = {} THEN 0
    ELSE LET i == CHOOSE j \in I : TRUE
         IN  df.rows[i].value + TotalOver(df, I \ {i})

\* The number a grouped figure denotes.
RECURSIVE Denotes(_)
Denotes(g) ==
    IF Len(g) = 1 THEN g[1]
    ELSE 1000 * Denotes(SubSeq(g, 1, Len(g) - 1)) + g[Len(g)]

\* _create_summary has returned a summary of the DataFrames.
Summarised == "sheet" \in summary.done /\ summary.sheet.raised = ""

\* C19: for a purchase dataset the summary reports the number of records,
\* the number of Pending ones, the number of Approved or Delivered ones, and
\* as Total Value the sum of the amounts, to two decimals.
C19_PurchaseSummary ==
    (Summarised /\ "amount" \in summary.dfs.purchase.cols) =>
        LET df == summary.dfs.purchase
            row == summary.sheet.value.purchase
        IN  /\ row.TotalRecords = Len(df.rows)
            /\ row.Pending = CountOf(df, {"Pending"})
            /\ row.Completed = CountOf(df, {"Approved"}) + CountOf(df, {"Delivered"})
            /\ row.Aggregate.sign = "Rs"
            /\ Len(row.Aggregate.decimals) = 1
            /\ 100 * Denotes(row.Aggregate.groups) + row.Aggregate.decimals[1]
                  = TotalOver(df, DOMAIN df.rows)

\* The ten orders of the example are summarised: Pending 3, Completed 7,
\* Total Value 5,000.00.
C19_Witness ==
    /\ Summarised
    /\ summary.dfs.purchase = TenOrders
    /\ summary.sheet.value.purchase.Pending = 3
    /\ summary.sheet.value.purchase.Completed = 7
    /\ summary.sheet.value.purchase.Aggregate.groups = <<5, 0>>
    /\ summary.sheet.value.purchase.Aggregate.decimals = <<0>>

\* The dataset of kind k given has its kind's columns and no records.
ZeroRecords(k) ==
    /\ KindColumns(k) \subseteq summary.dfs[k].cols
    /\ summary.dfs[k].rows = <<>>

\* All the fields of record r are zero.
AllZero(r) == \A f \in DOMAIN r : r[f] = 0

\* C20: a dataset with no records does not make the summary computations
\* fail (they return whenever every DataFrame has its kind's columns), and
\* its counts and its aggregate are reported as zero, by _create_summary and
\* by get_summary.
C20_EmptyDataset ==
    /\ (\A k \in KindSet : KindColumns(k) \subseteq summary.dfs[k].cols)
           => (summary.sheet.raised = "" /\ summary.api.raised = "")
    /\ \A k \in KindSet :
          ZeroRecords(k) =>
              /\ Summarised =>
                    LET row == summary.sheet.value[k]
                    IN  /\ row.TotalRecords = 0
                        /\ row.Pending = 0
                        /\ row.Completed = 0
                        /\ row.Aggregate.groups = <<0>>
                        /\ \A i \in DOMAIN row.Aggregate.decimals :
                               row.Aggregate.decimals[i] = 0
              /\ ("api" \in summary.done /\ summary.api.raised = "")
                    => AllZero(summary.api.value[k])

\* Both computations have returned for three purchase orders and no record
\* of the other kinds.
C20_Witness ==
    /\ summary.done = {"sheet", "api"}
    /\ summary.sheet.raised = ""
    /\ summary.api.raised = ""
    /\ Len(summary.dfs.purchase.rows) = 3
    /\ \A k \in KindSet \ {"purchase"} : ZeroRecords(k)
    /\ summary.sheet.value.shipment.TotalRecords = 0

\* The figure record a gives under one of these field names, -1 if it has
\* none of them.
Figure(a, names) ==
    IF names \cap DOMAIN a = {} THEN -1
    ELSE a[CHOOSE f \in names \cap DOMAIN a : TRUE]

\* The number a formatted aggregate denotes, in the unit of its column.
AggregateValue(text) ==
    IF text.decimals = <<>> THEN Denotes(text.groups)
    ELSE 100 * Denotes(text.groups) + text.decimals[1]

\* C21: for the same datasets get_summary and _create_summary give, for
\* every kind, the same record total, the same Pending and Completed counts
\* and the same kind total.
C21_SameAggregates ==
    (Summarised /\ "api" \in summary.done /\ summary.api.raised = ""
        /\ \A k \in KindSet : KindColumns(k) \subseteq summary.dfs[k].cols) =>
        \A k \in KindSet :
            LET a == summary.api.value[k]
                row == summary.sheet.value[k]
            IN  /\ Figure(a, {"total_orders", "total_shipments"}) = row.TotalRecords
                /\ Figure(a, {"pending"}) = row.Pending
                /\ Figure(a, {"completed"}) = row.Completed
                /\ Figure(a, {"total_amount", "total_units", "total_packed"})
                      = AggregateValue(row.Aggregate)

\* C22: a timestamped file, once there, is never changed by a later step:
\* it stays as it is or it is deleted.
C22_WriteOnce ==
    [][\A p \in DOMAIN files \ LatestPaths :
          p \in DOMAIN files' => files'[p] = files[p]]_vars

\* C23: a cycle in which a fetch failed writes no report: none of its steps
\* enters generate_excel_reports or generate_csv_exports or changes the
\* report directory, and no file ever holds data of that cycle.
C23_FetchFailureWritesNoReport ==
    /\ [][\A t \in Threads :
            (Acts(t) /\ cyc[t] # 0 /\ outcome'[cyc[t]] = "fetch")
                => /\ files' = files
                   /\ pc'[t] \in {"except", ReturnTo(t)}]_vars
    /\ [](\A c \in DOMAIN outcome :
            outcome[c] = "fetch" => \A p \in DOMAIN files : files[p].data # c)

\* The first cycle wrote its reports; the second failed a fetch and has
\* returned.
C23_Witness ==
    /\ Len(outcome) >= 2
    /\ outcome[1] = "ok"
    /\ outcome[2] = "fetch"
    /\ \A t \in Threads : ~InCycle(t)
    /\ \A a \in Artifacts :
          LatestPath(a) \in DOMAIN files /\ files[LatestPath(a)].data = 1

\* C24: the refresh cycle is the sole writer of the snapshot: every step of
\* get_summary, get_department_data and health_check, and the step in which
\* refresh_data starts its thread, leaves the four datasets and last_updated
\* as they were; latest_data changes only in a step of a cycle's publish.
C24_SoleWriter ==
    [][/\ (rpc' # rpc \/ resp' # resp \/ health' # health)
            => latest_data' = latest_data
       /\ \A t \in ReqThreads :
            (pc[t] = "idle" /\ pc'[t] # "idle") => latest_data' = latest_data
       /\ latest_data' # latest_data
            => \E t \in Threads : pc[t] = "publish" /\ Acts(t)]_vars

\* A health check and a query have answered from the first cycle's snapshot,
\* a refresh has been triggered, and the snapshot is still the one they saw.
C24_Witness ==
    /\ health.n >= 1
    /\ health.last_update.cyc = 1
    /\ latest_data.last_updated = health.last_update
    /\ \E r \in Readers : resp[r].status = 200
    /\ \E t \in ReqThreads : pc[t] # "idle"

\* C25: an on-demand refresh trigger never blocks its caller: while Flask
\* serves, refresh_data can start its thread and answer whoever holds
\* data_lock and whatever cycles are in progress, and it answers in the step
\* that starts the thread, the cycle it started being still to run.
C25_TriggerNeverBlocks ==
    /\ [](\A t \in ReqThreads :
            (pc["main"] = "serving" /\ pc[t] = "idle" /\ ncycles < lim.cycles)
                => ENABLED RefreshData(t))
    /\ [][\A t \in ReqThreads :
            (pc[t] = "idle" /\ pc'[t] # "idle")
                => /\ ack'[t] = RefreshInitiated
                   /\ pc'[t] = "fetch"
                   /\ outcome'[cyc'[t]] = "running"]_vars

\* refresh_data has answered and its cycle has just begun, while the hourly
\* job's cycle is in progress and holds data_lock.
C25_Witness ==
    \E t \in ReqThreads :
        /\ ack[t] = RefreshInitiated
        /\ pc[t] = "fetch"
        /\ calls[cyc[t]] = 0
        /\ data_lock = "sched"
        /\ pc["sched"] = "publish"

C27_StampImpliesDatasets ==
    Truthy(latest_data.last_updated) => \A k \in KindSet : latest_data[k] # None

\* health_check has found last_updated set, without the lock, while the
\* second cycle is in the middle of its publish.
C27_Witness ==
    /\ health.pc = "tested"
    /\ health.loaded
    /\ \E t \in Threads :
          /\ pc[t] = "publish"
          /\ idx[t] \in 2..Len(Kinds)
          /\ cyc[t] = 2
          /\ latest_data.purchase = 2
          /\ latest_data.shipment = 1

\* The stage of a cycle a position belongs to: 1 the fetches, 2 the publish,
\* 3 the workbook, 4 the CSV export; 0 outside a cycle and in the handler.
Stage(p) ==
    IF p = "fetch" THEN 1
    ELSE IF p \in {"acquire", "publish"} THEN 2
    ELSE IF p \in {"xl_stamp", "xl_write", "xl_copy"} THEN 3
    ELSE IF p \in {"csv_stamp", "csv_ts", "csv_latest"} THEN 4
    ELSE 0

\* The CSV artifacts, timestamped and latest.
CsvFiles(fs) == {p \in DOMAIN fs : p[1] = CsvDir}

\* C28: a cycle goes through fetch (all four), publish, workbook write and
\* CSV export in this order, each stage begun only when the one before is
\* complete; a cycle whose workbook write failed never reaches the CSV
\* export: its steps write no CSV artifact, timestamped or latest, and no
\* CSV artifact ever holds its data.
C28_FixedOrder ==
    /\ [][\A t \in Threads :
            /\ (Acts(t) /\ pc'[t] \in CyclePcs \ {"except"})
                   => Stage(pc'[t]) \in {Stage(pc[t]), Stage(pc[t]) + 1}
            /\ (Acts(t) /\ Stage(pc[t]) = 1 /\ Stage(pc'[t]) = 2)
                   => \A k \in KindSet : loc'[t][k] = cyc[t]
            /\ (Acts(t) /\ Stage(pc[t]) = 2 /\ Stage(pc'[t]) = 3)
                   => /\ latest_data' = [k \in KindSet |-> cyc[t]]
                                           @@ [last_updated |-> Stamp(cyc[t], now)]
                      /\ data_lock' # t
            /\ (Acts(t) /\ Stage(pc[t]) = 3 /\ Stage(pc'[t]) = 4)
                   => /\ "workbook" \in tsdone[t]
                      /\ LatestPath("workbook") \in DOMAIN files'
            /\ (Acts(t) /\ InCycle(t) /\ pc'[t] \notin CyclePcs)
                   => pc[t] \in {"csv_latest", "except"}]_vars
    /\ [][\A t \in Threads :
            (Acts(t) /\ cyc[t] # 0 /\ outcome'[cyc[t]] = "excel")
                => /\ CsvFiles(files') = CsvFiles(files)
                   /\ \A p \in CsvFiles(files) : files'[p] = files[p]
                   /\ Stage(pc'[t]) # 4]_vars
    /\ [](\A c \in DOMAIN outcome :
            outcome[c] = "excel" => \A p \in CsvFiles(files) : files[p].data # c)

\* The second cycle has published, failed in its workbook write and
\* returned; the CSV exports are still those of the first cycle.
C28_Witness ==
    /\ published = <<1, 2>>
    /\ outcome[2] = "excel"
    /\ \A t \in Threads : ~InCycle(t)
    /\ \A k \in KindSet :
          /\ LatestPath(k) \in DOMAIN files
          /\ files[LatestPath(k)].data = 1
    /\ \E p \in DOMAIN files \ CsvFiles(files) : files[p].data = 2

====
